---- MODULE Spec2Model ----
(***************************************************************************)
(* resvg-jpeg: the command-line pipeline of src/main.rs                    *)
(*   parse arguments -> resolve options -> load fonts -> read input ->     *)
(*   parse document -> compute geometry -> allocate, fill, rasterize ->    *)
(*   drop alpha -> encode and write.                                       *)
(* The run is one sequential process; pc is its position in main().        *)
(*                                                                         *)
(* Numbers.  TLC's integers are 32-bit signed, whereas the program         *)
(* computes in u8, u32, usize (64-bit) and f32.  u32 and usize values are  *)
(* therefore held as little-endian digit sequences in base 2^15 ("Big"),   *)
(* and f32 values as records [m, e] standing for m * 2^e with a 24-bit     *)
(* mantissa, rounded to nearest-even after every operation as IEEE-754     *)
(* single precision does.                                                  *)
(***************************************************************************)
EXTENDS Integers, Sequences, FiniteSets, TLC

\* Option<T>: None is the empty sequence, Some(v) the one-element sequence
None == <<>>
Some(v) == <<v>>
IsSome(o) == o # <<>>
Unwrap(o) == o[1]

\* ------------------------------------------------------------------------
\* Natural numbers beyond the native range
\* ------------------------------------------------------------------------
RECURSIVE Pow2(_)
Pow2(n) == IF n = 0 THEN 1 ELSE 2 * Pow2(n - 1)

Base == 32 * 1024

RECURSIVE BigOf(_)
BigOf(n) == IF n = 0 THEN <<>> ELSE <<n % Base>> \o BigOf(n \div Base)

RECURSIVE BigTrim(_)
BigTrim(x) ==
    IF x = <<>> THEN <<>>
    ELSE IF x[Len(x)] = 0 THEN BigTrim(SubSeq(x, 1, Len(x) - 1))
    ELSE x

RECURSIVE BigAddC(_, _, _)
BigAddC(x, y, c) ==
    IF x = <<>> /\ y = <<>> THEN (IF c = 0 THEN <<>> ELSE <<c>>)
    ELSE LET a == IF x = <<>> THEN 0 ELSE Head(x)
             b == IF y = <<>> THEN 0 ELSE Head(y)
             s == a + b + c
         IN  <<s % Base>> \o BigAddC(IF x = <<>> THEN <<>> ELSE Tail(x),
                                     IF y = <<>> THEN <<>> ELSE Tail(y),
                                     s \div Base)

BigAdd(x, y) == BigTrim(BigAddC(x, y, 0))

RECURSIVE BigMulDigit(_, _, _)
BigMulDigit(x, d, c) ==
    IF x = <<>> THEN (IF c = 0 THEN <<>> ELSE <<c>>)
    ELSE LET p == Head(x) * d + c
         IN  <<p % Base>> \o BigMulDigit(Tail(x), d, p \div Base)

RECURSIVE BigMul(_, _)
BigMul(x, y) ==
    IF y = <<>> THEN <<>>
    ELSE LET rest == BigMul(x, Tail(y))
         IN  BigAdd(BigTrim(BigMulDigit(x, Head(y), 0)),
                    IF rest = <<>> THEN <<>> ELSE <<0>> \o rest)

RECURSIVE BigLess(_, _)
BigLess(x, y) ==
    IF Len(x) # Len(y) THEN Len(x) < Len(y)
    ELSE IF x = <<>> THEN FALSE
    ELSE IF x[Len(x)] # y[Len(y)] THEN x[Len(x)] < y[Len(y)]
    ELSE BigLess(BigTrim(SubSeq(x, 1, Len(x) - 1)) \o <<>>,
                 BigTrim(SubSeq(y, 1, Len(y) - 1)) \o <<>>)

BigLeq(x, y) == x = y \/ BigLess(x, y)

\* x - 1 for x > 0
RECURSIVE BigPred(_)
BigPred(x) ==
    IF Head(x) > 0 THEN BigTrim(<<Head(x) - 1>> \o Tail(x))
    ELSE <<Base - 1>> \o BigPred(Tail(x))

\* the largest u32, 2^32 - 1, and 2^32 itself
U32_MAX == <<Base - 1, Base - 1, 3>>
TwoTo32 == <<0, 0, 4>>

\* x mod 2^32: what a wrapping u32 operation keeps
Wrap32(x) ==
    BigTrim([i \in 1..(IF Len(x) < 3 THEN Len(x) ELSE 3) |->
                 IF i = 3 THEN x[i] % 4 ELSE x[i]])

\* 2^n: one digit 2^(n mod 15) above n div 15 zero digits
BigPow2(n) == [i \in 1..(n \div 15 + 1) |->
                  IF i = n \div 15 + 1 THEN Pow2(n % 15) ELSE 0]

\* ------------------------------------------------------------------------
\* f32: positive finite single-precision values, [m, e] = m * 2^e, m odd,
\* m < 2^24.  (Subnormals, infinities and NaN do not arise: usvg sizes are
\* positive and finite.)
\* ------------------------------------------------------------------------
MantBits == 24

RECURSIVE Reduce(_, _)
Reduce(m, e) == IF m % 2 = 0 /\ m > 0 THEN Reduce(m \div 2, e + 1)
                ELSE [m |-> m, e |-> e]

BigHalf(x) ==
    BigTrim([i \in 1..Len(x) |->
                x[i] \div 2 + (IF i < Len(x) THEN (x[i + 1] % 2) * (Base \div 2) ELSE 0)])

BigIsOdd(x) == x # <<>> /\ x[1] % 2 = 1

\* the native value of a Big below 2^30
RECURSIVE BigToNat(_)
BigToNat(x) == IF x = <<>> THEN 0 ELSE Head(x) + Base * BigToNat(Tail(x))

\* drop low bits of p until it fits the 24-bit mantissa, remembering the
\* last bit dropped (half) and whether any earlier one was set (sticky)
RECURSIVE RoundLoop(_, _, _, _)
RoundLoop(p, half, sticky, s) ==
    IF BigLess(p, BigOf(Pow2(MantBits)))
    THEN [q |-> BigToNat(p), half |-> half, sticky |-> sticky, s |-> s]
    ELSE RoundLoop(BigHalf(p), BigIsOdd(p), sticky \/ half, s + 1)

\* round-to-nearest, ties-to-even of the exact value p * 2^e (p a Big)
F32RoundBig(p, e) ==
    LET r == RoundLoop(p, FALSE, FALSE, 0)
        up == r.half /\ (r.sticky \/ r.q % 2 = 1)
    IN  Reduce(IF up THEN r.q + 1 ELSE r.q, e + r.s)

F32Round(n, e) == F32RoundBig(BigOf(n), e)

F32Of(n) == F32Round(n, 0)            \* `n as f32`
F32One == F32Of(1)

\* binary long division: quotient bits of a / b until 24 are significant
RECURSIVE LongDiv(_, _, _, _)
LongDiv(q, r, b, k) ==
    IF q >= Pow2(MantBits - 1) THEN [q |-> q, r |-> r, k |-> k]
    ELSE LET r2 == 2 * r
             bit == IF r2 >= b THEN 1 ELSE 0
         IN  LongDiv(2 * q + bit, r2 - bit * b, b, k + 1)

\* a / b in f32 arithmetic (correctly rounded quotient)
F32Div(a, b) ==
    LET d == LongDiv(a.m \div b.m, a.m % b.m, b.m, 0)
        up == (2 * d.r > b.m) \/ (2 * d.r = b.m /\ d.q % 2 = 1)
    IN  F32Round(IF up THEN d.q + 1 ELSE d.q, a.e - b.e - d.k)

\* a * b in f32 arithmetic (correctly rounded product)
F32Mul(a, b) == F32RoundBig(BigMul(BigOf(a.m), BigOf(b.m)), a.e + b.e)

\* F32Ceil with the rounding up left out (truncation)
F32CeilTruncates(a) ==
    IF a.e >= 0 THEN a
    ELSE IF 0 - a.e >= MantBits THEN Reduce(0, 0)
    ELSE Reduce(a.m \div Pow2(0 - a.e), 0)

\* f32::ceil
F32Ceil(a) ==
    IF a.e >= 0 THEN a
    ELSE IF 0 - a.e >= MantBits THEN F32One
    ELSE LET d == Pow2(0 - a.e)
         IN  Reduce((a.m + d - 1) \div d, 0)

\* the exact integer part of a as a natural number
F32Trunc(a) ==
    IF a.e >= 0 THEN BigMul(BigOf(a.m), BigPow2(a.e))
    ELSE IF 0 - a.e >= MantBits THEN <<>>
    ELSE BigOf(a.m \div Pow2(0 - a.e))

\* `a as u32`: truncates toward zero and saturates at u32::MAX
F32AsU32(a) ==
    IF a.e > 32 \/ ~BigLess(F32Trunc(a), TwoTo32) THEN U32_MAX
    ELSE F32Trunc(a)

\* ------------------------------------------------------------------------
\* Command line and environment
\* ------------------------------------------------------------------------
U8_MAX == 255
DEFAULT_QUALITY == 80

\* integers given with --quality (80 is also what clap supplies when the
\* flag is absent)
QualityInputs == {0, 1, 80, 100, 101, 256}
\* --width: absent, or a u32
WidthInputs == {None, Some(0), Some(7), Some(100), Some(40000)}
\* --background strings and what csscolorparser makes of them; channels are
\* fractions of 255 (255 = 1.0).  The last string stands for any string
\* the parser accepts with a channel outside [0, 1].
BackgroundInputs == {"white", "#ff000080", "not-a-color", "color(srgb 2 0 0)"}
FontsDirInputs == {None, Some("fonts"), Some("no-such-dir")}
InputInputs == {None, Some("in.svg"), Some("missing.svg")}
OutputInputs == {None, Some("out.jpg"), Some("no-such-dir/out.jpg")}

ExistingDirs == {"fonts"}
ReadableFiles == {"in.svg"}
CreatablePaths == {"out.jpg"}

\* intrinsic sizes (f32 width, f32 height) a parsed document may report
Sz(wm, we, hm, he) == [width |-> Reduce(wm, we), height |-> Reduce(hm, he)]
DocSizes == { Sz(200, 0, 100, 0),      \* 200 x 100
              Sz(13, 0, 13, 0),        \* 13 x 13
              Sz(5, -1, 5, -2),        \* 2.5 x 1.25
              Sz(40000, 0, 40000, 0),  \* 40000 x 40000
              Sz(1, 33, 1, 0),         \* 2^33 x 1
              Sz(1, 0, 1, 33) }        \* 1 x 2^33
\* what the input bytes may be: a malformed document or a document of one
\* of the sizes above
Documents == {[valid |-> FALSE]} \cup {[valid |-> TRUE, size |-> z] : z \in DocSizes}

RawArgs == [quality : QualityInputs, width : WidthInputs,
            background : BackgroundInputs, use_fonts_dir : FontsDirInputs,
            input : InputInputs, output : OutputInputs]

\* ------------------------------------------------------------------------
\* Option resolution (main, lines 41-77)
\* ------------------------------------------------------------------------
Ok(v) == [ok |-> TRUE, value |-> v]
Err(m) == [ok |-> FALSE, error |-> m]

\* clap: `quality: u8` accepts exactly the integers 0..255
ClapParse(raw) ==
    IF raw.quality \in 0..U8_MAX THEN Ok(raw)
    ELSE Err([kind |-> "UsageError", flag |-> "--quality", value |-> raw.quality])

\* ResolveQuality with the `== 0` test forgotten
ResolveQualityNoZero(q) ==
    IF q > 100
    THEN [quality |-> DEFAULT_QUALITY,
          warn |-> <<[kind |-> "InvalidQuality", value |-> q]>>]
    ELSE [quality |-> q, warn |-> <<>>]

ResolveQuality(q) ==
    IF q = 0 \/ q > 100
    THEN [quality |-> DEFAULT_QUALITY,
          warn |-> <<[kind |-> "InvalidQuality", value |-> q]>>]
    ELSE [quality |-> q, warn |-> <<>>]

\* WidthIsZero with the check left out
WidthCheckSkipped(w) == FALSE

WidthIsZero(w) == IsSome(w) /\ Unwrap(w) = 0

ParseColor(str) ==
    CASE str = "white" -> Ok(<<255, 255, 255, 255>>)
      [] str = "#ff000080" -> Ok(<<255, 0, 0, 128>>)
      [] str = "color(srgb 2 0 0)" -> Ok(<<510, 0, 0, 255>>)
      [] OTHER -> Err("invalid color")

SKIA_WHITE == <<255, 255, 255, 255>>

\* tiny_skia::Color::from_rgba: None unless every channel is in [0, 1]
SkiaFromRgba(c) ==
    IF \A i \in 1..4 : c[i] >= 0 /\ c[i] <= 255 THEN Ok(c) ELSE Err("range")

\* ResolveBackground falling back to black on a parse failure
ResolveBackgroundBlack(str) ==
    LET parsed == ParseColor(str)
    IN  IF parsed.ok
        THEN IF SkiaFromRgba(parsed.value).ok
             THEN [color |-> parsed.value, warn |-> <<>>]
             ELSE [color |-> SKIA_WHITE,
                   warn |-> <<[kind |-> "InvalidBackgroundAlpha"]>>]
        ELSE [color |-> <<0, 0, 0, 255>>,
              warn |-> <<[kind |-> "BackgroundParseFailed", value |-> str]>>]

ResolveBackground(str) ==
    LET parsed == ParseColor(str)
    IN  IF parsed.ok
        THEN IF SkiaFromRgba(parsed.value).ok
             THEN [color |-> parsed.value, warn |-> <<>>]
             ELSE [color |-> SKIA_WHITE,
                   warn |-> <<[kind |-> "InvalidBackgroundAlpha"]>>]
        ELSE [color |-> SKIA_WHITE,
              warn |-> <<[kind |-> "BackgroundParseFailed", value |-> str]>>]

LoadFonts(dir) ==
    IF dir = None THEN [db |-> {"system"}, log |-> <<>>]
    ELSE IF Unwrap(dir) \in ExistingDirs
    THEN [db |-> {"system", Unwrap(dir)},
          log |-> <<[kind |-> "LoadingFonts", value |-> Unwrap(dir)]>>]
    ELSE [db |-> {"system"},
          log |-> <<[kind |-> "FontsDirMissing", value |-> Unwrap(dir)]>>]

\* ------------------------------------------------------------------------
\* load_svg_data, Tree::from_data, calculate_transform
\* ------------------------------------------------------------------------
\* ReadFile with the read error swallowed
ReadFileIgnoresError(path, content) == Ok(content)

\* Some(path): the file's bytes, or the read error with the path
ReadFile(path, content) ==
    IF path \in ReadableFiles THEN Ok(content)
    ELSE Err([text |-> "Failed to read input file", path |-> path])

\* TreeFromData rendering a malformed document as an empty 1 x 1 tree
TreeFromDataLenient(data) ==
    Ok([size |-> IF data.valid THEN data.size ELSE Sz(1, 0, 1, 0)])

TreeFromData(data) ==
    IF data.valid THEN Ok([size |-> data.size])
    ELSE Err([text |-> "Failed to parse SVG data"])

IdentityTransform == [sx |-> F32One, sy |-> F32One]

calculate_transform(rtree, width) ==
    LET original_width == rtree.size.width
        original_height == rtree.size.height
    IN  IF IsSome(width)
        THEN LET w == Unwrap(width)
                 scale == F32Div(F32Of(w), original_width)
                 h == F32Mul(original_height, scale)
             IN  [width |-> BigOf(w),
                  height |-> F32AsU32(F32Ceil(h)),
                  transform |-> [sx |-> scale, sy |-> scale]]
        ELSE [width |-> F32AsU32(F32Ceil(original_width)),
              height |-> F32AsU32(F32Ceil(original_height)),
              transform |-> IdentityTransform]

\* ------------------------------------------------------------------------
\* Pixmap: width, height (u32) and the RGBA8 pixel data.  The data is held
\* as runs: [n, px] stands for n consecutive pixels with the bytes px, so
\* that buffers of billions of pixels stay representable.
\* ------------------------------------------------------------------------
I32_MAX == BigPred(BigPow2(31))

\* tiny_skia::Pixmap::new: None for a zero dimension or a row of more than
\* i32::MAX bytes; the address space is 64-bit and memory is assumed to
\* suffice otherwise
PixmapNew(width, height) ==
    IF width = <<>> \/ height = <<>> \/ ~BigLeq(BigMul(width, BigOf(4)), I32_MAX)
    THEN Err("None")
    ELSE Ok([width |-> width, height |-> height,
             data |-> <<[n |-> BigMul(width, height), px |-> <<0, 0, 0, 0>>]>>])

\* premultiplied RGBA8 bytes of a colour
PremultiplyU8(c) ==
    <<(c[1] * c[4] + 127) \div 255, (c[2] * c[4] + 127) \div 255,
      (c[3] * c[4] + 127) \div 255, c[4]>>

RECURSIVE PixelCount(_)
PixelCount(data) ==
    IF data = <<>> THEN <<>> ELSE BigAdd(Head(data).n, PixelCount(Tail(data)))

PixmapFill(pixmap, color) ==
    [pixmap EXCEPT !.data = <<[n |-> PixelCount(pixmap.data),
                               px |-> PremultiplyU8(color)]>>]

\* resvg::render is opaque: the document draws nothing, or covers the first
\* pixel, or covers the whole buffer
RenderOutcomes == {"nothing", "first"}
PAINT == <<0, 0, 0, 255>>
Render(pixmap, outcome) ==
    LET total == PixelCount(pixmap.data)
        bg == pixmap.data[1].px
    IN  CASE outcome = "nothing" -> pixmap
          [] outcome = "cover" \/ total = <<1>> ->
                 [pixmap EXCEPT !.data = <<[n |-> total, px |-> PAINT]>>]
          [] OTHER ->
                 [pixmap EXCEPT !.data = <<[n |-> <<1>>, px |-> PAINT],
                                           [n |-> BigPred(total), px |-> bg]>>]

\* ------------------------------------------------------------------------
\* convert_pixmap_to_rgb (lines 150-168)
\* ------------------------------------------------------------------------
\* a * b in u32: the wrapped product and whether it overflowed
MulU32(a, b) ==
    LET p == BigMul(a, b)
    IN  [value |-> Wrap32(p), overflow |-> ~BigLess(p, TwoTo32)]

\* (width * height * 3) as usize, evaluated in u32 left to right
RgbCapacity(width, height) ==
    LET wh == MulU32(width, height)
        whc == MulU32(wh.value, BigOf(3))
    IN  [value |-> whc.value, overflow |-> wh.overflow \/ whc.overflow]

\* the loop over data.chunks_exact(4): r, g, b pushed, alpha ignored
DropAlpha(data) == [i \in 1..Len(data) |->
                       [n |-> data[i].n, px |-> SubSeq(data[i].px, 1, 3)]]

\* RgbImage::from_raw: None when the buffer is shorter than w * h * 3
RgbFromRaw(width, height, rgb_data) ==
    IF BigLeq(BigMul(BigMul(width, height), BigOf(3)),
              BigMul(PixelCount(rgb_data), BigOf(3)))
    THEN Ok([width |-> width, height |-> height, data |-> rgb_data])
    ELSE Err("None")

\* overflow_checks: whether the build traps on integer overflow (the dev
\* and test profiles do, the release profile wraps)
convert_pixmap_to_rgb(pixmap, overflow_checks) ==
    LET cap == RgbCapacity(pixmap.width, pixmap.height)
        img == RgbFromRaw(pixmap.width, pixmap.height, DropAlpha(pixmap.data))
    IN  IF cap.overflow /\ overflow_checks
        THEN [panic |-> "attempt to multiply with overflow"]
        ELSE IF ~img.ok
        THEN [panic |-> "Container should have correct size"]
        ELSE [panic |-> "", image |-> img.value, capacity |-> cap.value]

\* ------------------------------------------------------------------------
\* write_output (lines 170-192): File::create, BufWriter, JpegEncoder
\* ------------------------------------------------------------------------
BUF_CAP == 8192
JPEG_MAX_DIM == 65535
\* sizes of the write_all calls the encoder makes, and how many it makes
ChunkSizes == {5000, 8192}
MaxChunks == 2
RECURSIVE SeqsUpTo(_, _)
SeqsUpTo(S, n) ==
    IF n = 0 THEN {<<>>}
    ELSE LET shorter == SeqsUpTo(S, n - 1)
         IN  shorter \cup {Append(q, x) : q \in {r \in shorter : Len(r) = n - 1}, x \in S}
ChunkSeqs == SeqsUpTo(ChunkSizes, MaxChunks) \ {<<>>}
\* which write to the sink fails (0: none)
FailPoints == 0..(2 * MaxChunks + 1)

RECURSIVE SumSeq(_)
SumSeq(q) == IF q = <<>> THEN 0 ELSE Head(q) + SumSeq(Tail(q))

\* writer state: bytes in the buffer, bytes that reached the sink, writes
\* issued to the sink so far, and whether the last operation failed
NewWriter == [buf |-> 0, written |-> 0, calls |-> 0, failed |-> FALSE]

\* one write of n bytes to the sink
InnerWrite(st, n, failAt) ==
    IF st.calls + 1 = failAt
    THEN [st EXCEPT !.calls = @ + 1, !.failed = TRUE]
    ELSE [st EXCEPT !.calls = @ + 1, !.written = @ + n, !.failed = FALSE]

\* BufWriter::flush_buf
FlushBuf(st, failAt) ==
    IF st.buf = 0 THEN [st EXCEPT !.failed = FALSE]
    ELSE LET w == InnerWrite(st, st.buf, failAt)
         IN  IF w.failed THEN w ELSE [w EXCEPT !.buf = 0]

\* BufWriter::write_all
BufWriteAll(st, n, failAt) ==
    IF n < BUF_CAP - st.buf THEN [st EXCEPT !.buf = @ + n, !.failed = FALSE]
    ELSE LET f == IF n > BUF_CAP - st.buf THEN FlushBuf(st, failAt)
                  ELSE [st EXCEPT !.failed = FALSE]
         IN  IF f.failed THEN f
             ELSE IF n >= BUF_CAP THEN InnerWrite(f, n, failAt)
             ELSE [f EXCEPT !.buf = @ + n]

\* JpegEncoder::encode_image on an accepted image: the writes in order,
\* stopping at the first error
RECURSIVE EncodeWrites(_, _, _)
EncodeWrites(st, chunks, failAt) ==
    IF chunks = <<>> THEN st
    ELSE LET w == BufWriteAll(st, Head(chunks), failAt)
         IN  IF w.failed THEN w ELSE EncodeWrites(w, Tail(chunks), failAt)

EncoderRejects(image) ==
    \/ ~BigLeq(image.width, BigOf(JPEG_MAX_DIM))
    \/ ~BigLeq(image.height, BigOf(JPEG_MAX_DIM))

\* Drop for BufWriter: flush_buf with the result discarded
BufDrop(st, failAt) == [FlushBuf(st, failAt) EXCEPT !.failed = FALSE]

\* write_output: the returned Result, and what happened to the sink
write_output(output, image, quality, chunks, failAt) ==
    LET encodeMsg == IF output = None THEN "Failed to encode JPEG to stdout"
                     ELSE "Failed to encode JPEG"
    IN  IF IsSome(output) /\ Unwrap(output) \notin CreatablePaths
        THEN [result |-> Err([text |-> "Failed to create output file",
                              path |-> Unwrap(output)]),
              created |-> FALSE, encoder_quality |-> None,
              encoded |-> 0, written |-> 0]
        ELSE IF EncoderRejects(image)
        THEN [result |-> Err([text |-> encodeMsg]),
              created |-> IsSome(output), encoder_quality |-> Some(quality),
              encoded |-> 0, written |-> 0]
        ELSE LET enc == EncodeWrites(NewWriter, chunks, failAt)
                 st == BufDrop(enc, failAt)
             IN  [result |-> IF enc.failed THEN Err([text |-> encodeMsg]) ELSE Ok("unit"),
                  created |-> IsSome(output), encoder_quality |-> Some(quality),
                  encoded |-> SumSeq(chunks), written |-> st.written]

\* ------------------------------------------------------------------------
\* The run
\* ------------------------------------------------------------------------
VARIABLES
    argv,            \* the command line as given
    pc,              \* position in main()
    args,            \* Args::parse() result
    quality,         \* resolved quality
    bg_color_skia,   \* resolved background colour
    font_db,         \* font sources loaded into the database
    svg_data,        \* raw document bytes
    rtree,           \* parsed document tree
    geom,            \* (target_width, target_height, transform)
    pixmap,          \* RGBA pixel buffer
    rgb_image,       \* flattened RGB image
    out,             \* output sink: created, encoder quality, bytes expected / written
    stderr,          \* diagnostic stream
    exit_code,       \* process exit status, None while running
    trace            \* stages executed so far, in order

vars == <<argv, pc, args, quality, bg_color_skia, font_db, svg_data, rtree,
          geom, pixmap, rgb_image, out, stderr, exit_code, trace>>

NoSink == [created |-> FALSE, encoder_quality |-> None, encoded |-> 0,
           written |-> 0, touched |-> FALSE]

Init ==
    /\ argv \in RawArgs
    /\ pc = "parse_args"
    /\ args = None
    /\ quality = None
    /\ bg_color_skia = None
    /\ font_db = {}
    /\ svg_data = None
    /\ rtree = None
    /\ geom = None
    /\ pixmap = None
    /\ rgb_image = None
    /\ out = NoSink
    /\ stderr = <<>>
    /\ exit_code = None
    /\ trace = <<>>

\* main returns Err(e): anyhow prints "Error: e" and the process exits 1
Bail(e) ==
    /\ stderr' = Append(stderr, [kind |-> "Error", error |-> e])
    /\ exit_code' = Some(1)
    /\ pc' = "done"

\* line 41: Args::parse(); on a usage error clap prints it and exits 2
ParseArgs ==
    /\ pc = "parse_args"
    /\ LET r == ClapParse(argv)
       IN  IF r.ok
           THEN /\ args' = r.value
                /\ pc' = "quality"
                /\ UNCHANGED <<stderr, exit_code>>
           ELSE /\ stderr' = Append(stderr, r.error)
                /\ exit_code' = Some(2)
                /\ pc' = "done"
                /\ UNCHANGED args
    /\ trace' = Append(trace, "parse_args")
    /\ UNCHANGED <<argv, quality, bg_color_skia, font_db, svg_data, rtree,
                   geom, pixmap, rgb_image, out>>

\* lines 43-51
ResolveQualityStep ==
    /\ pc = "quality"
    /\ LET r == ResolveQuality(args.quality)
       IN  /\ quality' = r.quality
           /\ stderr' = stderr \o r.warn
    /\ pc' = "width"
    /\ trace' = Append(trace, "quality")
    /\ UNCHANGED <<argv, args, bg_color_skia, font_db, svg_data, rtree, geom,
                   pixmap, rgb_image, out, exit_code>>

\* lines 53-57
CheckWidth ==
    /\ pc = "width"
    /\ IF WidthIsZero(args.width)
       THEN Bail([text |-> "Width must be greater than 0"])
       ELSE /\ pc' = "background"
            /\ UNCHANGED <<stderr, exit_code>>
    /\ trace' = Append(trace, "width")
    /\ UNCHANGED <<argv, args, quality, bg_color_skia, font_db, svg_data,
                   rtree, geom, pixmap, rgb_image, out>>

\* lines 59-77
ResolveBackgroundStep ==
    /\ pc = "background"
    /\ LET r == ResolveBackground(args.background)
       IN  /\ bg_color_skia' = r.color
           /\ stderr' = stderr \o r.warn
    /\ pc' = "fonts"
    /\ trace' = Append(trace, "background")
    /\ UNCHANGED <<argv, args, quality, font_db, svg_data, rtree, geom,
                   pixmap, rgb_image, out, exit_code>>

\* lines 79-95
LoadFontsStep ==
    /\ pc = "fonts"
    /\ LET r == LoadFonts(args.use_fonts_dir)
       IN  /\ font_db' = r.db
           /\ stderr' = stderr \o r.log
    /\ pc' = "read"
    /\ trace' = Append(trace, "fonts")
    /\ UNCHANGED <<argv, args, quality, bg_color_skia, svg_data, rtree, geom,
                   pixmap, rgb_image, out, exit_code>>

\* line 97 and load_svg_data (lines 117-129); the bytes found in the file
\* or on stdin are the environment's, and reading stdin may fail
LoadSvgData ==
    /\ pc = "read"
    /\ \E content \in Documents, stdin_ok \in BOOLEAN :
         LET r == IF IsSome(args.input) THEN ReadFile(Unwrap(args.input), content)
                  ELSE IF stdin_ok THEN Ok(content)
                  ELSE Err([text |-> "Failed to read from stdin"])
         IN  IF r.ok
             THEN /\ svg_data' = r.value
                  /\ pc' = "parse"
                  /\ UNCHANGED <<stderr, exit_code>>
             ELSE /\ Bail(r.error)
                  /\ UNCHANGED svg_data
    /\ trace' = Append(trace, "read")
    /\ UNCHANGED <<argv, args, quality, bg_color_skia, font_db, rtree, geom,
                   pixmap, rgb_image, out>>

\* line 98
ParseTree ==
    /\ pc = "parse"
    /\ LET r == TreeFromData(svg_data)
       IN  IF r.ok
           THEN /\ rtree' = r.value
                /\ pc' = "geometry"
                /\ UNCHANGED <<stderr, exit_code>>
           ELSE /\ Bail(r.error)
                /\ UNCHANGED rtree
    /\ trace' = Append(trace, "parse")
    /\ UNCHANGED <<argv, args, quality, bg_color_skia, font_db, svg_data,
                   geom, pixmap, rgb_image, out>>

\* line 100
CalculateTransform ==
    /\ pc = "geometry"
    /\ geom' = calculate_transform(rtree, args.width)
    /\ pc' = "alloc"
    /\ trace' = Append(trace, "geometry")
    /\ UNCHANGED <<argv, args, quality, bg_color_skia, font_db, svg_data,
                   rtree, pixmap, rgb_image, out, stderr, exit_code>>

\* lines 102-103
AllocPixmap ==
    /\ pc = "alloc"
    /\ LET r == PixmapNew(geom.width, geom.height)
       IN  IF r.ok
           THEN /\ pixmap' = r.value
                /\ pc' = "fill"
                /\ UNCHANGED <<stderr, exit_code>>
           ELSE /\ Bail([text |-> "Failed to allocate memory for bitmap"])
                /\ UNCHANGED pixmap
    /\ trace' = Append(trace, "alloc")
    /\ UNCHANGED <<argv, args, quality, bg_color_skia, font_db, svg_data,
                   rtree, geom, rgb_image, out>>

\* line 105
Fill ==
    /\ pc = "fill"
    /\ pixmap' = PixmapFill(pixmap, bg_color_skia)
    /\ pc' = "render"
    /\ trace' = Append(trace, "fill")
    /\ UNCHANGED <<argv, args, quality, bg_color_skia, font_db, svg_data,
                   rtree, geom, rgb_image, out, stderr, exit_code>>

\* line 107
Rasterize ==
    /\ pc = "render"
    /\ \E outcome \in RenderOutcomes : pixmap' = Render(pixmap, outcome)
    /\ pc' = "flatten"
    /\ trace' = Append(trace, "render")
    /\ UNCHANGED <<argv, args, quality, bg_color_skia, font_db, svg_data,
                   rtree, geom, rgb_image, out, stderr, exit_code>>

\* line 110; a panic unwinds main and the process exits 101
Flatten ==
    /\ pc = "flatten"
    /\ \E overflow_checks \in BOOLEAN :
         LET r == convert_pixmap_to_rgb(pixmap, overflow_checks)
         IN  IF r.panic = ""
             THEN /\ rgb_image' = r.image
                  /\ pc' = "output"
                  /\ UNCHANGED <<stderr, exit_code>>
             ELSE /\ stderr' = Append(stderr, [kind |-> "Panic", text |-> r.panic])
                  /\ exit_code' = Some(101)
                  /\ pc' = "done"
                  /\ UNCHANGED rgb_image
    /\ trace' = Append(trace, "flatten")
    /\ UNCHANGED <<argv, args, quality, bg_color_skia, font_db, svg_data,
                   rtree, geom, pixmap, out>>

\* lines 112-114; the encoder's writes and the failing sink write, if any,
\* are the environment's
WriteOutput ==
    /\ pc = "output"
    /\ \E chunks \in ChunkSeqs, failAt \in FailPoints :
         LET r == write_output(args.output, rgb_image, quality, chunks, failAt)
         IN  /\ out' = [created |-> r.created,
                        encoder_quality |-> r.encoder_quality,
                        encoded |-> r.encoded, written |-> r.written,
                        touched |-> TRUE]
             /\ IF r.result.ok
                THEN /\ exit_code' = Some(0)
                     /\ pc' = "done"
                     /\ UNCHANGED stderr
                ELSE Bail(r.result.error)
    /\ trace' = Append(trace, "output")
    /\ UNCHANGED <<argv, args, quality, bg_color_skia, font_db, svg_data,
                   rtree, geom, pixmap, rgb_image>>

Next ==
    \/ ParseArgs
    \/ ResolveQualityStep
    \/ CheckWidth
    \/ ResolveBackgroundStep
    \/ LoadFontsStep
    \/ LoadSvgData
    \/ ParseTree
    \/ CalculateTransform
    \/ AllocPixmap
    \/ Fill
    \/ Rasterize
    \/ Flatten
    \/ WriteOutput

Spec == Init /\ [][Next]_vars

\* ------------------------------------------------------------------------
\* Properties
\* ------------------------------------------------------------------------
StageOrder == <<"parse_args", "quality", "width", "background", "fonts",
                "read", "parse", "geometry", "alloc", "fill", "render",
                "flatten", "output">>

Reached(stage) == \E i \in 1..Len(trace) : trace[i] = stage
Logged(msg) == \E i \in 1..Len(stderr) :
                   stderr[i].kind = msg.kind /\ stderr[i] = msg
LoggedKind(k) == \E i \in 1..Len(stderr) : stderr[i].kind = k
ErrorText(t) == \E i \in 1..Len(stderr) :
                    stderr[i].kind = "Error" /\ stderr[i].error.text = t
Terminated == pc = "done"
ClapAccepts == argv.quality \in 0..255

QualityWarning(q) == [kind |-> "InvalidQuality", value |-> q]

\* C1 as stated: every integer given with --quality that is outside
\* [1,100] is replaced by 80 with a warning naming it and never fails the
\* run; every integer inside [1,100] is passed on unchanged, unwarned.
C1_AnyInteger ==
    Terminated =>
        /\ exit_code # Some(2)
        /\ Logged(QualityWarning(argv.quality)) <=> argv.quality \notin 1..100
        /\ IsSome(out.encoder_quality) =>
              Unwrap(out.encoder_quality) =
                  (IF argv.quality \in 1..100 THEN argv.quality ELSE 80)

\* C1 amended: every quality value in 0..=255 that is outside [1,100] is
\* replaced by 80 with a warning naming it and does not fail the run; every
\* value inside [1,100] reaches the encoder unchanged and unwarned; the
\* encoder is only ever handed a quality in [1,100].
C1_QualityResolved ==
    /\ IsSome(out.encoder_quality) => Unwrap(out.encoder_quality) \in 1..100
    /\ (ClapAccepts /\ Reached("quality")) =>
          /\ Logged(QualityWarning(argv.quality)) <=> argv.quality \notin 1..100
          /\ LoggedKind("InvalidQuality") => Logged(QualityWarning(argv.quality))
          /\ quality = (IF argv.quality \in 1..100 THEN argv.quality ELSE 80)
          /\ IsSome(out.encoder_quality) => Unwrap(out.encoder_quality) = quality
          /\ ~LoggedKind("UsageError")
          /\ trace[Len(trace)] = "quality" => pc = "width"

C1_Witness ==
    /\ argv.quality = 101
    /\ Terminated /\ exit_code = Some(0)
    /\ out.encoder_quality = Some(80)
    /\ Logged(QualityWarning(101))

\* C2: with --width 0 the run fails with "Width must be greater than 0"
\* before any I/O: no fonts loaded, no input read, no document parsed, no
\* output written, whatever the other options are.
C2_WidthZeroAborts ==
    (ClapAccepts /\ argv.width = Some(0)) =>
        /\ \A st \in {"background", "fonts", "read", "parse", "geometry",
                      "alloc", "fill", "render", "flatten", "output"} :
               ~Reached(st)
        /\ font_db = {}
        /\ ~out.touched /\ ~out.created /\ out.written = 0
        /\ Reached("width") =>
              /\ Terminated
              /\ exit_code = Some(1)
              /\ stderr[Len(stderr)] =
                    [kind |-> "Error",
                     error |-> [text |-> "Width must be greater than 0"]]

C2_Witness ==
    /\ argv.width = Some(0)
    /\ argv.quality = 0 /\ argv.background = "not-a-color"
    /\ argv.input = Some("missing.svg")
    /\ Terminated /\ exit_code = Some(1)
    /\ ErrorText("Width must be greater than 0")

\* the value of an f32 in quarter units, for the sizes below 2^10
Quarters(a) == IF a.e >= -2 THEN a.m * Pow2(a.e + 2) ELSE 0
SmallSize(a) == a.e >= -2 /\ a.e <= 10 /\ a.m < Pow2(10 - a.e)

\* C3: for intrinsic size W x H and requested width Tw > 0 the geometry is
\* width Tw, height ceil(H * Tw / W), and the same scale on both axes.
\* (Stated for the documents whose size is a multiple of 1/4 below 2^10.)
C3_ScaledGeometry ==
    (Reached("geometry") /\ IsSome(argv.width)
        /\ SmallSize(rtree.size.width) /\ SmallSize(rtree.size.height)) =>
        LET Tw == Unwrap(argv.width)
            W4 == Quarters(rtree.size.width)
            H4 == Quarters(rtree.size.height)
        IN  /\ geom.width = BigOf(Tw)
            /\ geom.height = BigOf((H4 * Tw + W4 - 1) \div W4)
            /\ geom.transform.sx = geom.transform.sy

\* ceil of an f32 as a natural number
ExactCeil(a) ==
    IF a.e >= 0 THEN BigMul(BigOf(a.m), BigPow2(a.e))
    ELSE IF 0 - a.e >= 24 THEN <<1>>
    ELSE BigOf((a.m + Pow2(0 - a.e) - 1) \div Pow2(0 - a.e))

\* C4 as stated: without --width the pixel buffer is exactly
\* ceil(W) x ceil(H) and the transform is the identity.
C4_AnySize ==
    (Reached("alloc") /\ pc # "done" /\ argv.width = None) =>
        /\ pixmap.width = ExactCeil(rtree.size.width)
        /\ pixmap.height = ExactCeil(rtree.size.height)
        /\ geom.transform = [sx |-> [m |-> 1, e |-> 0], sy |-> [m |-> 1, e |-> 0]]

FitsU32(x) == BigLeq(x, <<32767, 32767, 3>>)

\* C4 amended: without --width, for every document whose ceil(W) and
\* ceil(H) do not exceed u32::MAX (4294967295), the computed dimensions and
\* the pixel buffer allocated from them are exactly ceil(W) x ceil(H), and
\* the transform is the identity.
C4_UnscaledGeometry ==
    (Reached("geometry") /\ argv.width = None
        /\ FitsU32(ExactCeil(rtree.size.width))
        /\ FitsU32(ExactCeil(rtree.size.height))) =>
        /\ geom.width = ExactCeil(rtree.size.width)
        /\ geom.height = ExactCeil(rtree.size.height)
        /\ geom.transform = [sx |-> [m |-> 1, e |-> 0], sy |-> [m |-> 1, e |-> 0]]
        /\ (Reached("alloc") /\ pc # "done") =>
              /\ pixmap.width = ExactCeil(rtree.size.width)
              /\ pixmap.height = ExactCeil(rtree.size.height)

C4_Witness ==
    /\ argv.width = None
    /\ pc = "render"
    /\ rtree.size = [width |-> [m |-> 5, e |-> -1], height |-> [m |-> 5, e |-> -2]]
    /\ pixmap.width = <<3>> /\ pixmap.height = <<2>>

BgWarning(str) == [kind |-> "BackgroundParseFailed", value |-> str]
WHITE_RGBA8 == <<255, 255, 255, 255>>
Unparseable(str) == ~ParseColor(str).ok

\* C5 as stated: for every --background string that fails to parse, a
\* warning naming the string is emitted, the run does not fail, and the
\* buffer is filled with opaque white before rasterization.
C5_AnyRun ==
    (ClapAccepts /\ Unparseable(argv.background)) =>
        /\ Terminated => Logged(BgWarning(argv.background))
        /\ pc = "render" => pixmap.data = <<[n |-> PixelCount(pixmap.data),
                                             px |-> WHITE_RGBA8]>>

\* C5 amended: for every --background string that fails to parse, when
\* --width is not 0, a warning naming the string is emitted, the run goes
\* on to the next stage, and the buffer is filled with opaque white
\* (255,255,255, alpha 1) before rasterization.
C5_BackgroundFallback ==
    (ClapAccepts /\ Unparseable(argv.background) /\ argv.width # Some(0)) =>
        /\ Terminated => Logged(BgWarning(argv.background))
        /\ Reached("background") =>
              /\ Logged(BgWarning(argv.background))
              /\ bg_color_skia = <<255, 255, 255, 255>>
              /\ trace[Len(trace)] = "background" => pc = "fonts"
        /\ pc = "render" => pixmap.data = <<[n |-> PixelCount(pixmap.data),
                                             px |-> WHITE_RGBA8]>>

C5_Witness ==
    /\ argv.background = "not-a-color"
    /\ pc = "render"
    /\ Logged(BgWarning("not-a-color"))
    /\ pixmap.data[1].px = WHITE_RGBA8

ReadError(path) ==
    [kind |-> "Error",
     error |-> [text |-> "Failed to read input file", path |-> path]]

\* C6: when --input names a missing or unreadable file and width is not 0,
\* the run exits non-zero with "Failed to read input file" and the path,
\* and the parser, rasterizer and encoder are never invoked.
C6_MissingInput ==
    (ClapAccepts /\ IsSome(argv.input) /\ Unwrap(argv.input) \notin ReadableFiles
        /\ argv.width # Some(0)) =>
        /\ ~Reached("parse") /\ ~Reached("render") /\ ~Reached("output")
        /\ out.encoder_quality = None /\ ~out.touched
        /\ Reached("read") =>
              /\ Terminated
              /\ exit_code = Some(1)
              /\ stderr[Len(stderr)] = ReadError(Unwrap(argv.input))
        /\ Terminated => Reached("read")

C6_Witness ==
    /\ argv.input = Some("missing.svg")
    /\ Terminated /\ exit_code = Some(1)
    /\ Logged(ReadError("missing.svg"))

FatalTexts == {"Width must be greater than 0", "Failed to read input file",
               "Failed to read from stdin", "Failed to parse SVG data",
               "Failed to allocate memory for bitmap",
               "Failed to create output file", "Failed to encode JPEG",
               "Failed to encode JPEG to stdout"}
FatalOccurred == \E t \in FatalTexts : ErrorText(t)

\* C7: recoverable conditions never abort the run: without a fatal
\* condition every triggered condition is warned about, every later stage
\* runs and the exit code is 0; the exit code is non-zero only when a
\* fatal condition occurred.
C7_RecoverableNeverAborts ==
    (ClapAccepts /\ Terminated) =>
        /\ exit_code # Some(0) => FatalOccurred
        /\ ~FatalOccurred =>
              /\ exit_code = Some(0)
              /\ trace = StageOrder
              /\ argv.quality \notin 1..100 => Logged(QualityWarning(argv.quality))
              /\ Unparseable(argv.background) => Logged(BgWarning(argv.background))
              /\ argv.use_fonts_dir = Some("no-such-dir") =>
                    Logged([kind |-> "FontsDirMissing", value |-> "no-such-dir"])

\* C8: every failure of the output stage, up to the last buffered byte,
\* makes the run exit non-zero: the run never exits 0 unless all encoded
\* bytes were written to the sink.
C8_OutputFailuresPropagate ==
    (Terminated /\ exit_code = Some(0)) =>
        /\ out.touched
        /\ out.written = out.encoded
        /\ IsSome(argv.output) => out.created

\* C9: for every buffer the compositor allocated, the flattening completes
\* without failure and yields an RGB image of the same dimensions, of
\* width * height * 3 bytes, whose pixels are the buffer's R, G, B bytes in
\* order, leaving the buffer unchanged.
C9_FlattenTotal ==
    Reached("flatten") =>
        /\ exit_code # Some(101)
        /\ ~LoggedKind("Panic")
        /\ rgb_image.width = pixmap.width
        /\ rgb_image.height = pixmap.height
        /\ BigMul(PixelCount(rgb_image.data), <<3>>) =
               BigMul(BigMul(pixmap.width, pixmap.height), <<3>>)
        /\ Len(rgb_image.data) = Len(pixmap.data)
        /\ \A i \in 1..Len(pixmap.data) :
               /\ rgb_image.data[i].n = pixmap.data[i].n
               /\ rgb_image.data[i].px = <<pixmap.data[i].px[1],
                                           pixmap.data[i].px[2],
                                           pixmap.data[i].px[3]>>

PreOutputFatal ==
    \/ argv.width = Some(0)
    \/ IsSome(argv.input) /\ Unwrap(argv.input) \notin ReadableFiles
    \/ ErrorText("Failed to read from stdin")
    \/ Len(trace) >= 7 /\ ~svg_data.valid
    \/ ErrorText("Failed to allocate memory for bitmap")

\* C10: the stages run in the fixed order, each at most once, and the
\* output sink is touched only after every earlier stage succeeded: after a
\* fatal condition before the output stage no file is created or truncated
\* and nothing is written to stdout.
C10_ForwardOnly ==
    /\ Len(trace) <= Len(StageOrder)
    /\ trace = SubSeq(StageOrder, 1, Len(trace))
    /\ (out.touched \/ out.created \/ out.written > 0) =>
          /\ trace = StageOrder
          /\ ~PreOutputFatal
    /\ (ClapAccepts /\ PreOutputFatal) =>
          /\ ~out.touched /\ ~out.created /\ out.written = 0
          /\ ~Reached("output")

C10_Witness ==
    /\ Terminated /\ exit_code = Some(1)
    /\ Len(trace) = 7 /\ ~svg_data.valid
    /\ argv.output = Some("out.jpg")
    /\ ~out.created

====
